---- MODULE Spec2Model ----
(***************************************************************************)
(* Model of the conversation page (HomePage) of thinkback: the React state *)
(* of the page, the SpeechRecognition session it drives, the <audio>       *)
(* element it plays replies on, and the sendTurn requests in flight.       *)
(*                                                                         *)
(* Every handler of the page is one action.  React batches the state       *)
(* updates of a handler and runs the [audioUrl] effect after the commit,   *)
(* so an action contains the handler, the effect it triggers and the       *)
(* promise reactions that the effect makes runnable at once.               *)
(*                                                                         *)
(* Texts are sequences of one-character strings, so that trim() is         *)
(* computed and not assumed.  The audio locator of a reply is the number   *)
(* of the request it answers (every synthesis call yields a new locator),  *)
(* 0 standing for null.  aiResponse (line 19) is written and never read,   *)
(* and is left out.                                                        *)
(*                                                                         *)
(* The sendTurn procedure of the server (debate.ts) is modelled beside     *)
(* the page: one call followed from its input to its result (SpecTurn),    *)
(* and its markdown stripping applied to a drawn text (SpecStrip).         *)
(***************************************************************************)
EXTENDS Naturals, Sequences, FiniteSets

VARIABLES
    isRecording,        \* useState(false), line 16
    isAiSpeaking,       \* useState(false), line 17
    userTranscript,     \* useState(""), line 18
    conversation,       \* useState<Message[]>([]), line 20
    audioUrl,           \* useState<string | null>(null), line 21
    recognitionRef,     \* the SpeechRecognition object behind recognitionRef
    audioPlayer,        \* the <audio> element behind audioPlayerRef
    inflight,           \* sendTurn mutations issued and not yet settled
    heard,              \* history: the final transcript the last step received
    turn,               \* one call of the sendTurn procedure of the server
    stripped            \* one application of the markdown stripping of sendTurn

vars == <<isRecording, isAiSpeaking, userTranscript, conversation,
          audioUrl, recognitionRef, audioPlayer, inflight, heard, turn, stripped>>

-----------------------------------------------------------------------------
(* Bounds *)

MaxEventChars == 2      \* characters carried by one onresult event
MaxResults == 2         \* results carried by one onresult event
MaxTurns == 2           \* sendTurn requests issued in one run

-----------------------------------------------------------------------------
(* Values *)

NULL == 0
NoRecognition == "unsupported"
WS == " "
Alphabet == {WS, "a"}
Urls == 1..MaxTurns
Empty == <<>>
errorText == <<"Error communicating with AI. Please try again.">>
AiTexts == {<<"r">>}

SeqsUpTo(S, n) == UNION {[1..k -> S] : k \in 0..n}

Transcripts == SeqsUpTo(Alphabet, MaxEventChars)

\* a SpeechRecognitionResult: isFinal and the transcript of its first alternative
SpeechResults == [isFinal : BOOLEAN, transcript : Transcripts]

RECURSIVE TotalChars(_)
TotalChars(results) ==
    IF results = Empty THEN 0
    ELSE Len(Head(results).transcript) + TotalChars(Tail(results))

\* event.results from event.resultIndex on
ResultEvents ==
    {results \in UNION {[1..k -> SpeechResults] : k \in 1..MaxResults} :
        TotalChars(results) <= MaxEventChars}

\* values of heard: after an onresult step the final transcript of its event,
\* after any other step nothing
NotHeard == [isResult |-> FALSE, final |-> Empty]
Heard(ft) == [isResult |-> TRUE, final |-> ft]

\* the data a successful sendTurn call for request number id resolves with
TurnData(id) == [aiText : AiTexts, audioUrl : {id, NULL}]


-----------------------------------------------------------------------------
(* Pure helpers *)

RECURSIVE trimStart(_)
trimStart(s) ==
    IF s = Empty THEN Empty
    ELSE IF Head(s) = WS THEN trimStart(Tail(s)) ELSE s

RECURSIVE trimEnd(_)
trimEnd(s) ==
    IF s = Empty THEN Empty
    ELSE IF s[Len(s)] = WS THEN trimEnd(SubSeq(s, 1, Len(s) - 1)) ELSE s

\* a trim that forgets the trailing whitespace
trimStartOnly(s) == trimStart(s)

\* String.prototype.trim as used on the final transcript
trim(s) == trimEnd(trimStart(s))

\* the loop of onresult: concatenation of the transcripts with isFinal = f
RECURSIVE concatTranscripts(_, _)
concatTranscripts(results, f) ==
    IF results = Empty THEN Empty
    ELSE (IF Head(results).isFinal = f THEN Head(results).transcript ELSE Empty)
         \o concatTranscripts(Tail(results), f)

finalTranscript(results) == concatTranscripts(results, TRUE)
interimTranscript(results) == concatTranscripts(results, FALSE)

RemoveAt(s, i) == SubSeq(s, 1, i - 1) \o SubSeq(s, i + 1, Len(s))

UserEntries(conv) == {i \in 1..Len(conv) : conv[i].speaker = "user"}
AiEntries(conv) == {i \in 1..Len(conv) : conv[i].speaker = "ai"}

\* the value of isRecording the recognition handlers close over: they are
\* created once by the mount effect, in the scope of the first render
mountIsRecording == FALSE

-----------------------------------------------------------------------------
(* The markdown stripping of sendTurn (debate.ts lines 112-121): nine      *)
(* global regex replacements applied in order.  A text is a sequence of    *)
(* tokens; "*", "_", "#", "[", "]", "(", ")", " ", "\t", "\n" and the     *)
(* backtick (BT) are the characters the patterns tell apart, any other     *)
(* token is a run of one or more other characters.                         *)

\* the backtick character, which a TLA+ string cannot hold
BT == "backtick"

Symbols == {"*", "_", BT, "#", "[", "]", "(", ")"}

HasAt(s, i, w) ==
    /\ i + Len(w) - 1 <= Len(s)
    /\ SubSeq(s, i, i + Len(w) - 1) = w

\* the last position of the longest run of tokens outside excl (inside, if
\* inside is TRUE) that starts at j; j - 1 if the run is empty
RECURSIVE RunEnd(_, _, _, _)
RunEnd(s, j, class, inside) ==
    IF j <= Len(s) /\ ((s[j] \in class) <=> inside)
    THEN RunEnd(s, j + 1, class, inside)
    ELSE j - 1

NoMatch == [len |-> 0, out |-> <<>>]

\* open ([^c]+) close, or open [^c]* close when min = 0: the class excludes
\* the first character of close, so the greedy run is the only candidate
MatchPair(s, i, open, c, min, close, keep) ==
    IF ~HasAt(s, i, open) THEN NoMatch
    ELSE LET j == i + Len(open)
             k == RunEnd(s, j, {c}, FALSE)
         IN  IF k - j + 1 >= min /\ HasAt(s, k + 1, close)
             THEN [len |-> k + Len(close) - i + 1,
                   out |-> IF keep THEN SubSeq(s, j, k) ELSE <<>>]
             ELSE NoMatch

\* ^[#]+[ \t] with the m flag: at the start of a line
MatchHeader(s, i) ==
    IF (i = 1 \/ s[i - 1] = "\n") /\ s[i] = "#"
    THEN LET k == RunEnd(s, i, {"#"}, TRUE)
         IN  IF k + 1 <= Len(s) /\ s[k + 1] \in {" ", "\t"}
             THEN [len |-> k + 1 - i + 1, out |-> <<>>]
             ELSE NoMatch
    ELSE NoMatch

\* \[([^\]]+)\]\([^\)]+\)
MatchLink(s, i) ==
    LET text == MatchPair(s, i, <<"[">>, "]", 1, <<"]", "(">>, TRUE)
    IN  IF text.len = 0 THEN NoMatch
        ELSE LET j == i + text.len
                 k == RunEnd(s, j, {")"}, FALSE)
             IN  IF k >= j /\ HasAt(s, k + 1, <<")">>)
                 THEN [len |-> k + 1 - i + 1, out |-> text.out]
                 ELSE NoMatch

\* [\[\]\(\)*_#`]
MatchSymbol(s, i) ==
    IF s[i] \in Symbols THEN [len |-> 1, out |-> <<>>] ELSE NoMatch

\* the nine patterns, in the order of lines 113-121
Match(s, i, n) ==
    CASE n = 1 -> MatchPair(s, i, <<"*", "*">>, "*", 1, <<"*", "*">>, TRUE)
      [] n = 2 -> MatchPair(s, i, <<"*">>, "*", 1, <<"*">>, TRUE)
      [] n = 3 -> MatchPair(s, i, <<"_", "_">>, "_", 1, <<"_", "_">>, TRUE)
      [] n = 4 -> MatchPair(s, i, <<"_">>, "_", 1, <<"_">>, TRUE)
      [] n = 5 -> MatchPair(s, i, <<BT>>, BT, 1, <<BT>>, TRUE)
      [] n = 6 -> MatchPair(s, i, <<BT, BT, BT>>, BT, 0, <<BT, BT, BT>>, FALSE)
      [] n = 7 -> MatchHeader(s, i)
      [] n = 8 -> MatchLink(s, i)
      [] n = 9 -> MatchSymbol(s, i)

\* String.prototype.replace with a global pattern: leftmost matches, not
\* overlapping, the text between them kept
RECURSIVE replaceFrom(_, _, _)
replaceFrom(s, i, n) ==
    IF i > Len(s) THEN <<>>
    ELSE LET m == Match(s, i, n)
         IN  IF m.len > 0
             THEN m.out \o replaceFrom(s, i + m.len, n)
             ELSE <<s[i]>> \o replaceFrom(s, i + 1, n)

replace(s, n) == replaceFrom(s, 1, n)

RECURSIVE replaceChain(_, _, _)
replaceChain(s, n, last) ==
    IF n > last THEN s ELSE replaceChain(replace(s, n), n + 1, last)

NumReplacements == 9

\* the chain without its last replacement
stripMarkdownEight(s) == replaceChain(s, 1, NumReplacements - 1)

\* lines 112-121
stripMarkdown(s) == replaceChain(s, 1, NumReplacements)

-----------------------------------------------------------------------------
(* The sendTurn procedure of the server (debate.ts).  One call is followed  *)
(* from the validated input to the value it returns; the two providers     *)
(* answer as they like.  A text beginning with the characters "Error:" has  *)
(* "Error:" as its first token.                                             *)

MaxReplyLen == 3

ReplyAlphabet == {WS, "a", "*", "Error:"}
Contents == SeqsUpTo(ReplyAlphabet, MaxReplyLen)
StatusTexts == {Empty, <<"Not Found">>}

\* what the chat provider does with the request: fetch or the decoding of
\* the body throws; a status outside 2xx; or a body, whose first choice holds
\* content (Empty: no choice, no content, or the empty string)
GroqOutcomes ==
    [kind : {"throws"}, statusText : {Empty}, content : {Empty}]
    \cup [kind : {"notOk"}, statusText : StatusTexts, content : {Empty}]
    \cup [kind : {"ok"}, statusText : {Empty}, content : Contents]

\* what the speech provider does: subscribe throws; the result holds no
\* audio.url string; or it holds the locator url
FalOutcomes ==
    [kind : {"throws", "noUrl"}, url : {NULL}]
    \cup [kind : {"url"}, url : Urls]

\* the module does not load without the key, lines 12-14
GROQ_API_KEY == TRUE

fallbackText == <<"Sorry, I encountered an error.">>

startsWithError(s) == Len(s) > 0 /\ s[1] = "Error:"

\* getGroqResponse, lines 46-96
getGroqResponse(o) ==
    IF ~GROQ_API_KEY THEN <<"Error:", " Groq API key not configured.">>
    ELSE IF o.kind = "throws" THEN <<"Error sending request to Groq API.">>
    ELSE IF o.kind = "notOk"
    THEN <<"Error communicating with Groq API: ">> \o o.statusText
    ELSE IF o.content # Empty THEN trim(o.content)
    ELSE <<"No response text found from Groq API.">>

\* getFalTtsAudioUrl without its try/catch
getFalTtsAudioUrlNoCatch(o) ==
    IF o.kind = "url"
    THEN [raised |-> FALSE, value |-> o.url]
    ELSE [raised |-> o.kind = "throws", value |-> NULL]

\* getFalTtsAudioUrl, lines 17-43: the value returned, and whether the call
\* raised instead of returning
getFalTtsAudioUrl(o) ==
    IF o.kind = "url"
    THEN [raised |-> FALSE, value |-> o.url]
    ELSE [raised |-> FALSE, value |-> NULL]

\* lines 109-122
plainTextForTts(aiTextResponse) ==
    IF aiTextResponse # Empty /\ ~startsWithError(aiTextResponse)
    THEN stripMarkdown(aiTextResponse)
    ELSE IF aiTextResponse # Empty THEN aiTextResponse ELSE fallbackText

\* sendTurn returning the text it passes to the synthesis in every case
returnedSpoken(aiTextResponse, url) ==
    [aiText |-> plainTextForTts(aiTextResponse), audioUrl |-> url]

\* lines 124-141
returned(aiTextResponse, url) ==
    IF aiTextResponse = Empty \/ startsWithError(aiTextResponse)
    THEN [aiText |-> plainTextForTts(aiTextResponse), audioUrl |-> url]
    ELSE [aiText |-> aiTextResponse, audioUrl |-> url]

NoOutcome == [kind |-> "none", statusText |-> Empty, content |-> Empty]
NoFalOutcome == [kind |-> "none", url |-> NULL]
NoResult == [aiText |-> Empty, audioUrl |-> NULL]
NotStripped == [done |-> FALSE, input |-> Empty, output |-> Empty]

\* no call is being followed
NoTurn ==
    [pc |-> "none", text |-> Empty, groq |-> NoOutcome, aiTextResponse |-> Empty,
     fal |-> NoFalOutcome, spoken |-> <<>>, result |-> NoResult]

\* input: z.string().min(1), line 101
received(text) == [NoTurn EXCEPT !.pc = "received", !.text = text]

\* line 106
callGroq(o) ==
    /\ turn.pc = "received"
    /\ turn' = [turn EXCEPT !.pc = "replied", !.groq = o,
                            !.aiTextResponse = getGroqResponse(o)]

\* lines 109-141
callFal(o) ==
    /\ turn.pc = "replied"
    /\ LET audio == getFalTtsAudioUrl(o)
       IN  turn' = [turn EXCEPT
                      !.fal = o,
                      !.spoken = Append(@, plainTextForTts(turn.aiTextResponse)),
                      !.pc = IF audio.raised THEN "raised" ELSE "returned",
                      !.result = IF audio.raised THEN NoResult
                                 ELSE returned(turn.aiTextResponse, audio.value)]

server == <<turn, stripped>>

page == <<isRecording, isAiSpeaking, userTranscript, conversation,
          audioUrl, recognitionRef, audioPlayer, inflight, heard>>

\* the page plays no part in what the server does
pageAtRest ==
    /\ isRecording = FALSE
    /\ isAiSpeaking = FALSE
    /\ userTranscript = Empty
    /\ conversation = Empty
    /\ audioUrl = NULL
    /\ recognitionRef = "off"
    /\ audioPlayer = [src |-> NULL, play |-> "stopped"]
    /\ inflight = Empty
    /\ heard = NotHeard

InitTurn ==
    /\ pageAtRest
    /\ turn \in {received(text) : text \in Transcripts \ {Empty}}
    /\ stripped = NotStripped

NextTurn ==
    \/ \E o \in GroqOutcomes : callGroq(o) /\ UNCHANGED <<page, stripped>>
    \/ \E o \in FalOutcomes : callFal(o) /\ UNCHANGED <<page, stripped>>

SpecTurn == InitTurn /\ [][NextTurn]_vars

-----------------------------------------------------------------------------
(* The markdown stripping on its own: a text is drawn, and stripped *)

MaxMdLen == 4

MdAlphabet == Symbols \cup {WS, "\n", "a"}

boldItalicCode ==
    <<"*", "*", "bold", "*", "*", WS, "and", WS, "_", "italic", "_", WS, "and", WS,
      BT, "code", BT>>
headingLink ==
    <<"#", WS, "Heading", "\n", "[", "link", "]", "(", "http://x", ")">>

MdTexts == SeqsUpTo(MdAlphabet, MaxMdLen) \cup {boldItalicCode, headingLink}

InitStrip ==
    /\ pageAtRest
    /\ turn = NoTurn
    /\ stripped \in {[done |-> FALSE, input |-> s, output |-> Empty] : s \in MdTexts}

\* lines 112-121
strip ==
    /\ ~stripped.done
    /\ stripped' = [stripped EXCEPT !.done = TRUE, !.output = stripMarkdown(stripped.input)]
    /\ UNCHANGED <<page, turn>>

NextStrip == strip

SpecStrip == InitStrip /\ [][NextStrip]_vars

-----------------------------------------------------------------------------
(* Initial state: the page after mount *)

Init ==
    /\ isRecording = FALSE
    /\ isAiSpeaking = FALSE
    /\ userTranscript = Empty
    /\ conversation = Empty
    /\ audioUrl = NULL
    /\ recognitionRef \in {"off", NoRecognition}
    /\ audioPlayer = [src |-> NULL, play |-> "stopped"]
    /\ inflight = Empty
    /\ heard = NotHeard
    /\ turn = NoTurn
    /\ stripped = NotStripped

-----------------------------------------------------------------------------
(* The SpeechRecognition object and the <audio> element *)

\* SpeechRecognition.stop(): a running session stops listening; it may still
\* deliver the result of what it heard, or an error, before its end event,
\* which is what a running session may do at any time
recognitionStop(r) == r

\* SpeechRecognition.start() throws InvalidStateError unless the object is idle
recognitionCanStart(r) == r = "off"

\* HTMLMediaElement.pause(), followed by currentTime = 0
audioPause(p) == [p EXCEPT !.play = "stopped"]

\* the [audioUrl] effect: src = audioUrl; play()
audioLoadAndPlay(p, url) == [src |-> url, play |-> "pending"]

\* the effect body runs when the committed audioUrl differs from the previous
\* one and is truthy (audioPlayerRef.current is always mounted)
effectRuns(old, new) == new # old /\ new # NULL

Supersede(reqs) == [k \in 1..Len(reqs) |-> [reqs[k] EXCEPT !.superseded = TRUE]]

-----------------------------------------------------------------------------
(* Handlers *)

\* handleMicClick, lines 104-124
handleMicClick ==
    /\ heard' = NotHeard
    /\ IF recognitionRef = NoRecognition
       THEN UNCHANGED <<isRecording, isAiSpeaking, userTranscript,
                        conversation, audioUrl, recognitionRef, audioPlayer,
                        inflight>>
       ELSE IF isRecording
       THEN /\ recognitionRef' = recognitionStop(recognitionRef)
            /\ isRecording' = FALSE
            /\ UNCHANGED <<isAiSpeaking, userTranscript,
                           conversation, audioUrl, audioPlayer, inflight>>
       ELSE /\ IF isAiSpeaking
               THEN /\ audioPlayer' = audioPause(audioPlayer)
                    /\ audioUrl' = NULL
                    /\ isAiSpeaking' = FALSE
                    /\ inflight' = Supersede(inflight)
               ELSE UNCHANGED <<audioPlayer, audioUrl, isAiSpeaking, inflight>>
            /\ userTranscript' = Empty
            /\ IF recognitionCanStart(recognitionRef)
               THEN /\ recognitionRef' = "on"
                    /\ isRecording' = TRUE
               ELSE \* start() throws: setIsRecording(true) is never reached
                    UNCHANGED <<recognitionRef, isRecording>>
            /\ UNCHANGED conversation

\* handleUserTurnEnd appending the user entry without calling mutate
handleUserTurnEndNoRequest(text) ==
    IF text = Empty
    THEN UNCHANGED <<conversation, isAiSpeaking, inflight>>
    ELSE /\ conversation' = Append(conversation, [speaker |-> "user", text |-> text])
         /\ isAiSpeaking' = TRUE
         /\ UNCHANGED inflight

\* handleUserTurnEnd, lines 126-133 (its setUserTranscript("") is in onresult)
handleUserTurnEnd(text) ==
    IF text = Empty
    THEN UNCHANGED <<conversation, isAiSpeaking, inflight>>
    ELSE /\ conversation' = Append(conversation, [speaker |-> "user", text |-> text])
         /\ isAiSpeaking' = TRUE
         /\ inflight' = Append(inflight, [id |-> Cardinality(UserEntries(conversation)) + 1,
                                       text |-> text, superseded |-> FALSE])

\* recognitionInstance.onresult, lines 62-76
onresult(results) ==
    LET ft == finalTranscript(results)
        it == interimTranscript(results)
        ended == \E k \in 1..Len(results) : results[k].isFinal
    IN  /\ recognitionRef = "on"
        /\ (ft # Empty /\ trim(ft) # Empty)
               => Cardinality(UserEntries(conversation)) < MaxTurns
        /\ heard' = Heard(ft)
        \* continuous = false: the session ends after a final result
        /\ recognitionRef' = IF ended THEN "closing" ELSE recognitionRef
        /\ userTranscript' = IF ft # Empty /\ trim(ft) # Empty THEN Empty
                             ELSE IF ft # Empty THEN ft ELSE it
        /\ IF ft # Empty
           THEN handleUserTurnEnd(trim(ft))
           ELSE UNCHANGED <<conversation, isAiSpeaking, inflight>>
        /\ UNCHANGED <<isRecording, audioUrl, audioPlayer>>

\* recognitionInstance.onerror, lines 78-84
onerror ==
    /\ recognitionRef = "on"
    /\ heard' = NotHeard
    /\ recognitionRef' = "closing"
    /\ isRecording' = FALSE
    /\ UNCHANGED <<isAiSpeaking, userTranscript, conversation,
                   audioUrl, audioPlayer, inflight>>

\* recognitionInstance.onend, lines 86-90
onend ==
    /\ recognitionRef \in {"on", "closing"}
    /\ heard' = NotHeard
    /\ recognitionRef' = "off"
    /\ isRecording' = IF mountIsRecording THEN FALSE ELSE isRecording
    /\ UNCHANGED <<isAiSpeaking, userTranscript, conversation,
                   audioUrl, audioPlayer, inflight>>

\* sendTurnMutation onSuccess, lines 28-34, and the [audioUrl] effect it
\* triggers, lines 135-148.  Loading a new src rejects a play() promise that
\* is still pending, and its catch (lines 142-146) runs right after the effect.
onSuccess(i, data) ==
    /\ i \in 1..Len(inflight)
    /\ heard' = NotHeard
    /\ inflight' = RemoveAt(inflight, i)
    /\ conversation' = Append(conversation, [speaker |-> "ai", text |-> data.aiText])
    /\ isAiSpeaking' = FALSE
    /\ IF effectRuns(audioUrl, data.audioUrl)
       THEN /\ audioPlayer' = audioLoadAndPlay(audioPlayer, data.audioUrl)
            /\ audioUrl' = IF audioPlayer.play = "pending" THEN NULL
                           ELSE data.audioUrl
       ELSE /\ audioUrl' = data.audioUrl
            /\ UNCHANGED audioPlayer
    /\ UNCHANGED <<isRecording, userTranscript, recognitionRef>>

\* onError putting its entry in place of the conversation
onErrorReplacing(i) ==
    /\ i \in 1..Len(inflight)
    /\ heard' = NotHeard
    /\ inflight' = RemoveAt(inflight, i)
    /\ conversation' = <<[speaker |-> "ai", text |-> errorText]>>
    /\ audioUrl' = NULL
    /\ isAiSpeaking' = FALSE
    /\ UNCHANGED <<isRecording, userTranscript, recognitionRef, audioPlayer>>

\* sendTurnMutation onError, lines 35-42
onError(i) ==
    /\ i \in 1..Len(inflight)
    /\ heard' = NotHeard
    /\ inflight' = RemoveAt(inflight, i)
    /\ conversation' = Append(conversation, [speaker |-> "ai", text |-> errorText])
    /\ audioUrl' = NULL
    /\ isAiSpeaking' = FALSE
    /\ UNCHANGED <<isRecording, userTranscript, recognitionRef, audioPlayer>>

\* play().then, lines 139-141
playThen ==
    /\ audioPlayer.play = "pending"
    /\ heard' = NotHeard
    /\ audioPlayer' = [audioPlayer EXCEPT !.play = "playing"]
    /\ isAiSpeaking' = TRUE
    /\ UNCHANGED <<isRecording, userTranscript, conversation,
                   audioUrl, recognitionRef, inflight>>

\* play().catch, lines 142-146
playCatch ==
    /\ audioPlayer.play = "pending"
    /\ heard' = NotHeard
    /\ audioPlayer' = [audioPlayer EXCEPT !.play = "stopped"]
    /\ isAiSpeaking' = FALSE
    /\ audioUrl' = NULL
    /\ UNCHANGED <<isRecording, userTranscript, conversation,
                   recognitionRef, inflight>>

\* <audio onEnded>, lines 198-201
onEnded ==
    /\ audioPlayer.play = "playing"
    /\ heard' = NotHeard
    /\ audioPlayer' = [audioPlayer EXCEPT !.play = "stopped"]
    /\ isAiSpeaking' = FALSE
    /\ audioUrl' = NULL
    /\ UNCHANGED <<isRecording, userTranscript, conversation,
                   recognitionRef, inflight>>

\* <audio onError>, lines 202-206
onAudioError ==
    /\ audioPlayer.play = "playing"
    /\ heard' = NotHeard
    /\ audioPlayer' = [audioPlayer EXCEPT !.play = "stopped"]
    /\ isAiSpeaking' = FALSE
    /\ audioUrl' = NULL
    /\ UNCHANGED <<isRecording, userTranscript, conversation,
                   recognitionRef, inflight>>

Next ==
    \/ handleMicClick /\ UNCHANGED server
    \/ \E results \in ResultEvents : onresult(results) /\ UNCHANGED server
    \/ onerror /\ UNCHANGED server
    \/ onend /\ UNCHANGED server
    \/ \E i \in 1..Len(inflight) : \E data \in TurnData(inflight[i].id) :
          onSuccess(i, data) /\ UNCHANGED server
    \/ \E i \in 1..Len(inflight) : onError(i) /\ UNCHANGED server
    \/ playThen /\ UNCHANGED server
    \/ playCatch /\ UNCHANGED server
    \/ onEnded /\ UNCHANGED server
    \/ onAudioError /\ UNCHANGED server

Spec == Init /\ [][Next]_vars

\* The page left alone once a turn has started: the user clicks only before
\* the first user entry; every request settles, every play() promise
\* settles, every playback ends or fails, every capture session ends.
settle ==
    \E i \in 1..Len(inflight) :
        \/ \E data \in TurnData(inflight[i].id) : onSuccess(i, data)
        \/ onError(i)

NextUnattended ==
    \/ conversation = Empty /\ handleMicClick /\ UNCHANGED server
    \/ \E results \in ResultEvents : onresult(results) /\ UNCHANGED server
    \/ onerror /\ UNCHANGED server
    \/ onend /\ UNCHANGED server
    \/ settle /\ UNCHANGED server
    \/ playThen /\ UNCHANGED server
    \/ playCatch /\ UNCHANGED server
    \/ onEnded /\ UNCHANGED server
    \/ onAudioError /\ UNCHANGED server

SpecUnattended ==
    /\ Init
    /\ [][NextUnattended]_vars
    /\ WF_vars(settle /\ UNCHANGED server)
    /\ WF_vars((playThen \/ playCatch) /\ UNCHANGED server)
    /\ WF_vars((onEnded \/ onAudioError) /\ UNCHANGED server)
    /\ WF_vars(onend /\ UNCHANGED server)

-----------------------------------------------------------------------------
(* The phases of the conversation, as the page shows them *)

Playing == audioPlayer.play = "playing"
Idle == ~isRecording /\ ~isAiSpeaking
Listening == isRecording
AwaitingReply == isAiSpeaking /\ ~Playing /\ inflight # Empty
Speaking == isAiSpeaking /\ Playing

\* t is raw without its leading and trailing whitespace
IsTrimOf(t, raw) ==
    \E i \in 1..Len(raw) : \E j \in i..Len(raw) :
        /\ t = SubSeq(raw, i, j)
        /\ raw[i] # WS /\ raw[j] # WS
        /\ \A k \in 1..Len(raw) : (k < i \/ k > j) => raw[k] = WS

IsBlank(raw) == \A k \in 1..Len(raw) : raw[k] = WS

-----------------------------------------------------------------------------
(* Claims *)

\* C1: the page is never recording while the assistant is busy or while a
\* reply is playing, so that exactly one phase holds.
C1_PhasesExclusive ==
    ~(isRecording /\ (isAiSpeaking \/ Playing))

\* C2: the settlement (success or error) of a request that an interruption
\* superseded changes neither the flags, nor the pending audio locator, nor
\* the audio element, nor the conversation.
C2_StaleResponseIgnored ==
    [][\A i \in 1..Len(inflight) :
          (/\ inflight[i].superseded
           /\ \/ \E data \in TurnData(inflight[i].id) : onSuccess(i, data)
              \/ onError(i))
          => UNCHANGED <<isRecording, isAiSpeaking, audioUrl, audioPlayer,
                         conversation>>]_vars

\* C3: at most one sendTurn request is unresolved at any time.
C3_SingleRequestInFlight ==
    Len(inflight) <= 1

\* C4: a mic click while the reply is playing stops the playback, clears the
\* pending audio locator and leaves the page listening, in that one step.
C4_InterruptionEdge ==
    [][(Speaking /\ handleMicClick)
          => (/\ audioPlayer'.play = "stopped"
              /\ audioUrl' = NULL
              /\ isRecording'
              /\ ~isAiSpeaking')]_vars

\* C5: while the page is recording no request is unresolved and the pending
\* audio locator is null.
C5_ListeningIsQuiet ==
    isRecording => (inflight = Empty /\ audioUrl = NULL)

\* C6: while a reply is playing the pending audio locator is the locator the
\* audio element plays, and the locator is non-null only while the element is
\* playing it or starting to.
C6_PendingAudioBound ==
    /\ Playing => (audioUrl # NULL /\ audioPlayer.src = audioUrl)
    /\ audioUrl # NULL => (audioPlayer.play # "stopped" /\ audioPlayer.src = audioUrl)

\* C7: a result event whose final transcript has a non-blank character
\* appends exactly one user entry holding the trimmed transcript and issues
\* exactly one request with that text; an event whose final transcript is
\* empty or blank, or that carries interim results only, appends nothing and
\* issues nothing.
C7_OneUserEntryPerFinal ==
    [][heard'.isResult =>
          LET ft == heard'.final
              n == Len(inflight)
          IN  IF IsBlank(ft)
              THEN UNCHANGED <<conversation, inflight>>
              ELSE \E t \in Transcripts :
                      /\ IsTrimOf(t, ft)
                      /\ conversation' = conversation \o <<[speaker |-> "user", text |-> t]>>
                      /\ Len(inflight') = n + 1
                      /\ SubSeq(inflight', 1, n) = inflight
                      /\ inflight'[n + 1].text = t]_vars

\* C7 witness: the final transcript " a" has just been received, and the
\* first user entry and the first request hold "a".
C7_Witness ==
    /\ heard = Heard(<<WS, "a">>)
    /\ conversation = <<[speaker |-> "user", text |-> <<"a">>]>>
    /\ Len(inflight) = 1
    /\ inflight[1].text = <<"a">>

\* C8: a reply with an audio locator, arriving while the page awaits it,
\* appends one assistant entry, makes the locator the pending one, starts its
\* playback and leaves the assistant busy, never idle.
C8_ReplyStartsSpeaking ==
    [][\A i \in 1..Len(inflight) : \A data \in TurnData(inflight[i].id) :
          (AwaitingReply /\ data.audioUrl # NULL /\ onSuccess(i, data))
          => (/\ conversation' = conversation \o <<[speaker |-> "ai", text |-> data.aiText]>>
              /\ audioUrl' = data.audioUrl
              /\ audioPlayer' = [src |-> data.audioUrl, play |-> "pending"]
              /\ isAiSpeaking')]_vars

\* C9: the end of the playback, a playback error and a rejected play() leave
\* the page idle with a null pending audio locator and the same conversation.
C9_PlaybackEndsIdle ==
    [][(\/ Speaking /\ (onEnded \/ onAudioError)
        \/ audioPlayer.play = "pending" /\ playCatch)
          => (/\ Idle'
              /\ audioUrl' = NULL
              /\ conversation' = conversation)]_vars

\* C10: a reply without an audio locator, arriving while the page awaits it,
\* appends one assistant entry, starts no playback, leaves the pending audio
\* locator null and the page idle.
C10_SilentReplyEndsIdle ==
    [][\A i \in 1..Len(inflight) : \A data \in TurnData(inflight[i].id) :
          (AwaitingReply /\ data.audioUrl = NULL /\ onSuccess(i, data))
          => (/\ conversation' = conversation \o <<[speaker |-> "ai", text |-> data.aiText]>>
              /\ audioPlayer' = audioPlayer
              /\ audioUrl' = NULL
              /\ Idle')]_vars


\* C11: an RPC error of the request the page awaits appends exactly one
\* assistant entry holding the fixed error text, leaves the pending audio
\* locator null, starts no playback and leaves the page idle.
C11_RpcErrorEndsIdle ==
    [][\A i \in 1..Len(inflight) :
          (AwaitingReply /\ onError(i))
          => (/\ conversation' = conversation \o <<[speaker |-> "ai", text |-> errorText]>>
              /\ audioUrl' = NULL
              /\ audioPlayer' = audioPlayer
              /\ Idle')]_vars

\* C12: while the page is recording, a capture error, the end of the capture
\* session without a final result, and a mic click each leave the page not
\* recording, append no entry and issue no request.
C12_CaptureStopsToIdle ==
    [][(isRecording /\ recognitionRef = "on" /\ (onerror \/ onend \/ handleMicClick))
          => (/\ ~isRecording'
              /\ conversation' = conversation
              /\ inflight' = inflight)]_vars


-----------------------------------------------------------------------------
(* Claims about the sendTurn procedure (SpecTurn) *)

Tokens ==
    ReplyAlphabet \cup UNION {{st[k] : k \in 1..Len(st)} : st \in StatusTexts}
    \cup {"Error sending request to Groq API.",
          "Error communicating with Groq API: ",
          "No response text found from Groq API.",
          " Groq API key not configured.",
          "Sorry, I encountered an error."}

\* the chat call failed entirely: it threw, answered outside 2xx, or its body
\* held no content
ChatFailed ==
    \/ turn.groq.kind \in {"throws", "notOk"}
    \/ turn.groq.kind = "ok" /\ turn.groq.content = Empty

\* C13: whatever the two providers do, sendTurn does not raise; it returns a
\* text and a locator or null, and the locator is null exactly when the
\* synthesis threw or yielded no audio.url string.
C13_SendTurnNeverRaises ==
    /\ turn.pc # "raised"
    /\ turn.pc = "returned" =>
          /\ turn.result.aiText \in Seq(Tokens)
          /\ turn.result.audioUrl \in Urls \cup {NULL}
          /\ (turn.result.audioUrl = NULL) <=> (turn.fal.kind # "url")

\* C13 witness: the chat call threw, the synthesis threw, and sendTurn
\* returned a text and a null locator.
C13_Witness ==
    /\ turn.pc = "returned"
    /\ turn.groq.kind = "throws"
    /\ turn.fal.kind = "throws"
    /\ turn.result = [aiText |-> <<"Error sending request to Groq API.">>,
                      audioUrl |-> NULL]

\* C14: when the chat call failed entirely, sendTurn returns the fixed
\* fallback text "Sorry, I encountered an error." as aiText.
C14_ChatFailureGivesFallback ==
    (turn.pc = "returned" /\ ChatFailed) => turn.result.aiText = fallbackText

\* C15: the synthesis is invoked exactly once per call and only after the
\* chat call returned; when the chat call succeeded, the returned aiText is
\* the reply as the chat call gave it and the synthesis gets its sanitized
\* form; when it failed, the synthesis gets the returned aiText itself.
C15_ReplyKeptSpeechSanitized ==
    /\ turn.pc \in {"received", "replied"} => turn.spoken = <<>>
    /\ turn.pc = "returned" =>
          /\ Len(turn.spoken) = 1
          /\ IF ChatFailed
             THEN turn.spoken[1] = turn.result.aiText
             ELSE /\ turn.result.aiText = trim(turn.groq.content)
                  /\ turn.spoken[1] = stripMarkdown(trim(turn.groq.content))

\* C15, amended: the synthesis is invoked exactly once per call and only
\* after the chat call returned; when getGroqResponse gave a text that is not
\* empty and does not begin with "Error:" (a reply, or the message of a
\* failed chat call), the returned aiText is that text and the synthesis gets
\* its sanitized form; when it gave the empty text (a blank reply) aiText and
\* the text the synthesis gets are both the fallback text; when it gave a
\* text beginning with "Error:" they are both that text.
C15_Amended ==
    /\ turn.pc \in {"received", "replied"} => turn.spoken = <<>>
    /\ turn.pc = "returned" =>
          LET text == turn.aiTextResponse
          IN  /\ Len(turn.spoken) = 1
              /\ text = getGroqResponse(turn.groq)
              /\ IF text = Empty
                 THEN turn.result.aiText = fallbackText /\ turn.spoken[1] = fallbackText
                 ELSE IF text[1] = "Error:"
                 THEN turn.result.aiText = text /\ turn.spoken[1] = text
                 ELSE turn.result.aiText = text /\ turn.spoken[1] = stripMarkdown(text)

\* C15 witness: the reply "*a*" was returned as it is and "a" was spoken.
C15_Witness ==
    /\ turn.pc = "returned"
    /\ turn.groq.content = <<"*", "a", "*">>
    /\ turn.result.aiText = <<"*", "a", "*">>
    /\ turn.spoken = << <<"a">> >>


-----------------------------------------------------------------------------
(* Claims about the page, continued (Spec, SpecUnattended) *)

\* C17: every step leaves the entries of the conversation as they are and in
\* their order, and adds at most one entry at the end; the playback events,
\* the capture error and end, and the mic click (stop, start, interruption)
\* add none.
C17_ConversationAppendOnly ==
    [][/\ Len(conversation') \in {Len(conversation), Len(conversation) + 1}
       /\ SubSeq(conversation', 1, Len(conversation)) = conversation
       /\ (playThen \/ playCatch \/ onEnded \/ onAudioError
             \/ onerror \/ onend \/ handleMicClick)
          => conversation' = conversation]_vars

\* C17 witness: two turns have been appended, the second answered by the
\* RPC error, behind the entries of the first.
C17_Witness ==
    /\ Len(conversation) = 4
    /\ conversation[1].speaker = "user"
    /\ conversation[2] = [speaker |-> "ai", text |-> <<"r">>]
    /\ conversation[3].speaker = "user"
    /\ conversation[4] = [speaker |-> "ai", text |-> errorText]

\* C19: left alone after the final transcript that started a turn, the page
\* eventually is not recording, not assistant-busy and without a pending
\* audio locator.
C19_NoStalling ==
    (inflight # Empty) ~> (~isRecording /\ ~isAiSpeaking /\ audioUrl = NULL)

\* C20: the assistant entries and the unsettled requests together are as
\* many as the user entries.
C20_EntryAccounting ==
    /\ Cardinality(AiEntries(conversation)) + Len(inflight)
          = Cardinality(UserEntries(conversation))
    /\ Cardinality(AiEntries(conversation)) <= Cardinality(UserEntries(conversation))

\* C20 witness: two user entries, one of them answered and the request of the
\* other unsettled.
C20_Witness ==
    /\ Cardinality(UserEntries(conversation)) = 2
    /\ Cardinality(AiEntries(conversation)) = 1
    /\ Len(inflight) = 1

-----------------------------------------------------------------------------
(* Claim about the markdown stripping (SpecStrip) *)

\* C18: the nine replacements turn "**bold** and _italic_ and `code`" into
\* "bold and italic and code" and "# Heading\n[link](http://x)" into
\* "Heading\nlink", and the text they give holds none of the characters
\* [ ] ( ) * _ # and backtick, whatever the input.
C18_StrippedHasNoSymbols ==
    stripped.done =>
        /\ \A k \in 1..Len(stripped.output) : stripped.output[k] \notin Symbols
        /\ stripped.input = boldItalicCode =>
              stripped.output = <<"bold", WS, "and", WS, "italic", WS, "and", WS, "code">>
        /\ stripped.input = headingLink =>
              stripped.output = <<"Heading", "\n", "link">>

\* C18 witness: the heading and the link have been stripped to their texts.
C18_Witness ==
    /\ stripped.done
    /\ stripped.input = headingLink
    /\ stripped.output = <<"Heading", "\n", "link">>

====
